---- MODULE Spec2Model ----
(***************************************************************************)
(* A model of closest_location.py: ranking of candidate destinations for   *)
(* a job by matching score, with a data-locality (distance) fallback.      *)
(*                                                                         *)
(* Python objects are modelled as follows.                                 *)
(*   - A missing dict key and the value None are both the empty tuple      *)
(*     None; a present value x is the 1-tuple Some(x).                     *)
(*   - A float is an exact rational [inf, n, d] in lowest terms, or the    *)
(*     value Inf (float('inf')).  Rounding of binary floats is not         *)
(*     modelled.                                                           *)
(*   - A histogram key is a string of decimal digits, kept as the tuple    *)
(*     of its digits; int() parses it.                                     *)
(*   - Destination dicts live in a heap and lists hold references          *)
(*     (indices into the heap), so that in-place annotation is visible     *)
(*     through every list that holds the same dict.                        *)
(***************************************************************************)
EXTENDS Integers, Sequences, FiniteSets, TLC

VARIABLES heap, heap0, calls, args, pc, idx, viable, online, result,
          wcount, keys_read, inp, ret

vars == <<heap, heap0, calls, args, pc, idx, viable, online, result,
          wcount, keys_read, inp, ret>>

callvars == <<heap, heap0, calls, args, pc, idx, viable, online, result,
              wcount, keys_read>>

----------------------------------------------------------------------------
(* Optional values                                                         *)

None == <<>>

Some(x) == <<x>>

\* dict.get(key, default)
Get(opt, default) == IF opt = None THEN default ELSE opt[1]

\* truthiness of an optional string (None and "" are falsy)
Truthy(opt) == opt # None /\ opt[1] # ""

----------------------------------------------------------------------------
(* Floats as exact extended rationals                                      *)

RECURSIVE GCD(_, _)
GCD(a, b) == IF b = 0 THEN a ELSE GCD(b, a % b)

Fin(n, d) == [inf |-> FALSE, n |-> n \div GCD(n, d), d |-> d \div GCD(n, d)]

Inf == [inf |-> TRUE, n |-> 0, d |-> 1]

\* a < b
Less(a, b) ==
    IF a.inf THEN FALSE
    ELSE IF b.inf THEN TRUE
    ELSE a.n * b.d < b.n * a.d

\* a + b
Add(a, b) ==
    IF a.inf \/ b.inf THEN Inf
    ELSE Fin(a.n * b.d + b.n * a.d, a.d * b.d)

\* min(a, b): Python keeps the first argument unless the second is smaller
PyMin(a, b) == IF Less(b, a) THEN b ELSE a

----------------------------------------------------------------------------
(* distance: the haversine formula, evaluated on coordinates that are      *)
(* multiples of 90 degrees, where cos is -1, 0 or 1 and hav is 0, 1/2 or   *)
(* 1; the result is in whole kilometres.  The inputs below lie on the      *)
(* equator, where the floats the code computes are equal exactly when the  *)
(* values here are.                                                        *)

Cos90(deg) ==
    CASE deg % 360 = 0 -> 1
      [] deg % 360 = 180 -> -1
      [] OTHER -> 0

distance(lat1, lon1, lat2, lon2) ==
    LET hav2 == 1 - Cos90(lat2 - lat1)
                  + Cos90(lat1) * Cos90(lat2) * (1 - Cos90(lon2 - lon1))
    IN  CASE hav2 = 0 -> Fin(0, 1)
          [] hav2 = 1 -> Fin(10008, 1)
          [] OTHER -> Fin(20015, 1)

----------------------------------------------------------------------------
(* get_object_store                                                        *)

SeqToSet(s) == {s[k] : k \in 1..Len(s)}

RECURSIVE CollectStores(_, _)
CollectStores(values, k) ==
    IF k > Len(values) THEN <<>>
    ELSE IF Truthy(values[k].object_store_id)
         THEN <<values[k].object_store_id[1]>> \o CollectStores(values, k + 1)
         ELSE CollectStores(values, k + 1)

get_object_store(dataset_attributes) ==
    LET object_store == CollectStores(dataset_attributes, 1)
    IN  IF Cardinality(SeqToSet(object_store)) = 1
        THEN <<object_store[1]>>
        ELSE object_store

----------------------------------------------------------------------------
(* closest_destination                                                     *)

\* objectstores.get(object_store_id)
RegistryGet(objectstores, object_store_id) ==
    IF object_store_id \in DOMAIN objectstores
    THEN Some(objectstores[object_store_id])
    ELSE None

RECURSIVE MinDistanceLoop(_, _, _, _, _)
MinDistanceLoop(destination, objectstores, object_store, k, min_distance) ==
    IF k > Len(object_store) THEN min_distance
    ELSE LET object_store_info == RegistryGet(objectstores, object_store[k])
         IN  IF object_store_info # None
             THEN MinDistanceLoop(destination, objectstores, object_store, k + 1,
                      PyMin(min_distance,
                            distance(object_store_info[1].latitude,
                                     object_store_info[1].longitude,
                                     destination.latitude,
                                     destination.longitude)))
             ELSE MinDistanceLoop(destination, objectstores, object_store, k + 1,
                                  min_distance)

\* a variant that keeps the last distance computed instead of the minimum
RECURSIVE LastDistanceLoop(_, _, _, _, _)
LastDistanceLoop(destination, objectstores, object_store, k, last) ==
    IF k > Len(object_store) THEN last
    ELSE LET object_store_info == RegistryGet(objectstores, object_store[k])
         IN  IF object_store_info # None
             THEN LastDistanceLoop(destination, objectstores, object_store, k + 1,
                      distance(object_store_info[1].latitude,
                               object_store_info[1].longitude,
                               destination.latitude,
                               destination.longitude))
             ELSE LastDistanceLoop(destination, objectstores, object_store, k + 1,
                                   last)

closest_destination_last(destination, objectstores, dataset_attributes) ==
    LET object_store == get_object_store(dataset_attributes)
    IN  IF object_store = <<>> THEN Inf
        ELSE LastDistanceLoop(destination, objectstores, object_store, 1, Inf)

closest_destination(destination, objectstores, dataset_attributes) ==
    LET object_store == get_object_store(dataset_attributes)
    IN  IF object_store = <<>> THEN Inf
        ELSE MinDistanceLoop(destination, objectstores, object_store, 1, Inf)

----------------------------------------------------------------------------
(* calculate_matching_score.  The result is [raised, value]: comparing     *)
(* None with 0 raises TypeError.                                           *)

Returned(v) == [raised |-> FALSE, value |-> v]

TypeError == [raised |-> TRUE, value |-> Inf]

\* the queue factor or the compute factor, for a numeric median time
Factor(median_time, count) ==
    IF median_time > 0 /\ count > 0
    THEN Fin(1, median_time * count)
    ELSE Inf

\* a variant that leaves the job counts out of the factors
calculate_matching_score_nocount(destination) ==
    LET median_waiting_time == destination.dest_tool_median_queue_time
        median_running_time == destination.dest_tool_median_run_time
    IN  IF median_waiting_time = None \/ median_running_time = None
        THEN TypeError
        ELSE Returned(Add(Factor(median_waiting_time[1], 1),
                          Factor(median_running_time[1], 1)))

calculate_matching_score(destination) ==
    LET median_waiting_time == destination.dest_tool_median_queue_time
        queue_size == Get(destination.dest_queue_count, 1)
        median_running_time == destination.dest_tool_median_run_time
        running_jobs == Get(destination.dest_run_count, 1)
    IN  IF median_waiting_time = None THEN TypeError
        ELSE IF median_running_time = None THEN TypeError
        ELSE Returned(Add(Factor(median_waiting_time[1], queue_size),
                          Factor(median_running_time[1], running_jobs)))

----------------------------------------------------------------------------
(* The feasibility filter of get_sorted_destinations                       *)

\* int(free_cpus), int(free_memory): a decimal digit string to its number
RECURSIVE ParseDigits(_, _, _)
ParseDigits(digits, k, acc) ==
    IF k > Len(digits) THEN acc
    ELSE ParseDigits(digits, k + 1, acc * 10 + digits[k])

int(digits) == ParseDigits(digits, 1, 0)

\* memory is asked for in GB and the histograms are in MB
memory_in_mb(job_requirements) == job_requirements.memory * 1024

\* a variant with a strict comparison
HasMoreThan(histogram, required) ==
    \E k \in 1..Len(histogram) : int(histogram[k][1]) > required

\* the loop over histogram.items(): some key is at least the requirement
HasSufficient(histogram, required) ==
    \E k \in 1..Len(histogram) : int(histogram[k][1]) >= required

IsViable(dest, job_requirements) ==
    /\ dest.dest_status = "online"
    /\ HasSufficient(Get(dest.dest_cpu_histogram, <<>>), job_requirements.cores)
    /\ HasSufficient(Get(dest.dest_memory_histogram, <<>>),
                     memory_in_mb(job_requirements))

\* a variant of the fallback test that lets every destination through
IsOnlineAlways(dest) == TRUE

\* dest.get('dest_status') == 'online'
IsOnline(dest) == dest.dest_status = "online"

\* a variant of the fallback test that is always taken
NoViableAlways(viable_destinations) == TRUE

\* not viable_destinations
NoViable(viable_destinations) == viable_destinations = <<>>

----------------------------------------------------------------------------
(* sorted() and list.sort(): stable sorts of a list of references by a     *)
(* key; key is a function from reference to float.                         *)

\* x goes before y
Before(key, x, y, reverse) ==
    IF reverse THEN Less(key[y], key[x]) ELSE Less(key[x], key[y])

RECURSIVE InsertStable(_, _, _, _)
InsertStable(sorted, x, key, reverse) ==
    IF sorted = <<>> THEN <<x>>
    ELSE IF Before(key, x, Head(sorted), reverse)
         THEN <<x>> \o sorted
         ELSE <<Head(sorted)>> \o InsertStable(Tail(sorted), x, key, reverse)

RECURSIVE StableSortFrom(_, _, _, _, _)
StableSortFrom(s, k, key, reverse, acc) ==
    IF k > Len(s) THEN acc
    ELSE StableSortFrom(s, k + 1, key, reverse,
                        InsertStable(acc, s[k], key, reverse))

StableSort(s, key, reverse) == StableSortFrom(s, 1, key, reverse, <<>>)

Reverse(s) == [k \in 1..Len(s) |-> s[Len(s) + 1 - k]]

\* a variant: descending order got by reversing an ascending sort
sort_by_matching_score_reversed(viable_destinations, key) ==
    Reverse(StableSort(viable_destinations, key, FALSE))

\* viable_destinations.sort(key=matching_score, reverse=True)
sort_by_matching_score(viable_destinations, key) ==
    StableSort(viable_destinations, key, TRUE)

\* a variant that sorts by descending distance
sorted_by_distance_desc(online_destinations, key) ==
    StableSort(online_destinations, key, TRUE)

\* sorted(online_destinations, key=distance_to_data)
sorted_by_distance(online_destinations, key) ==
    StableSort(online_destinations, key, FALSE)

\* [dest['destination_id'] for dest in ...]
Ids(h, refs) == [k \in 1..Len(refs) |-> h[refs[k]].destination_id]

DistanceKey(h, refs) ==
    [r \in SeqToSet(refs) |-> h[r].distance_to_data[1]]

ScoreKey(h, refs) ==
    [r \in SeqToSet(refs) |-> h[r].matching_score[1]]

----------------------------------------------------------------------------
(* get_sorted_destinations, one statement at a time.  Call c is at pc[c]:  *)
(*   filter       line 81-103  next destination of the filter loop         *)
(*   annotate     line 105     write distance_to_data on a viable one      *)
(*   append       line 106     viable_destinations.append(dest)            *)
(*   branch       line 109     if not viable_destinations                  *)
(*   fb_loop      line 111-112 next destination of the fallback loop       *)
(*   fb_annotate  line 113     write distance_to_data on an online one     *)
(*   fb_append    line 114     online_destinations.append(dest)            *)
(*   fb_sort      line 116-117 sort by distance and return                 *)
(*   score        line 120-121 write matching_score on the next viable one *)
(*   sort         line 127-133 sort by matching score and return           *)
(*   done         the call has returned result[c]                          *)
(*   raised       the call has ended with TypeError                        *)

Dests(c) == args[c].destinations

CurrentDest(c) == Dests(c)[idx[c]]

Goto(c, label) == pc' = [pc EXCEPT ![c] = label]

\* a variant that reads the registry and the datasets of the first call,
\* as if they were kept in one place for all calls
ClosestGlobal(c, ref) ==
    closest_destination(heap[ref], args[1].objectstores,
                        args[1].dataset_attributes)

\* closest_destination(dest, objectstores, dataset_attributes) of call c
Closest(c, ref) ==
    closest_destination(heap[ref], args[c].objectstores,
                        args[c].dataset_attributes)

CountWrite(c, ref, field) ==
    wcount' = [wcount EXCEPT ![c][ref][field] = @ + 1]

FilterStep(c) ==
    /\ pc[c] = "filter"
    /\ IF idx[c] > Len(Dests(c))
       THEN Goto(c, "branch") /\ UNCHANGED idx
       ELSE IF IsViable(heap[CurrentDest(c)], args[c].job_requirements)
            THEN Goto(c, "annotate") /\ UNCHANGED idx
            ELSE idx' = [idx EXCEPT ![c] = @ + 1] /\ UNCHANGED pc
    /\ UNCHANGED <<heap, heap0, calls, args, viable, online, result, wcount,
                   keys_read, inp, ret>>

AnnotateViable(c) ==
    /\ pc[c] = "annotate"
    /\ heap' = [heap EXCEPT ![CurrentDest(c)].distance_to_data =
                                Some(Closest(c, CurrentDest(c)))]
    /\ CountWrite(c, CurrentDest(c), "distance_to_data")
    /\ Goto(c, "append")
    /\ UNCHANGED <<heap0, calls, args, idx, viable, online, result,
                   keys_read, inp, ret>>

AppendViable(c) ==
    /\ pc[c] = "append"
    /\ viable' = [viable EXCEPT ![c] = Append(@, CurrentDest(c))]
    /\ idx' = [idx EXCEPT ![c] = @ + 1]
    /\ Goto(c, "filter")
    /\ UNCHANGED <<heap, heap0, calls, args, online, result, wcount,
                   keys_read, inp, ret>>

Branch(c) ==
    /\ pc[c] = "branch"
    /\ IF NoViable(viable[c]) THEN Goto(c, "fb_loop") ELSE Goto(c, "score")
    /\ idx' = [idx EXCEPT ![c] = 1]
    /\ UNCHANGED <<heap, heap0, calls, args, viable, online, result, wcount,
                   keys_read, inp, ret>>

FallbackStep(c) ==
    /\ pc[c] = "fb_loop"
    /\ IF idx[c] > Len(Dests(c))
       THEN Goto(c, "fb_sort") /\ UNCHANGED idx
       ELSE IF IsOnline(heap[CurrentDest(c)])
            THEN Goto(c, "fb_annotate") /\ UNCHANGED idx
            ELSE idx' = [idx EXCEPT ![c] = @ + 1] /\ UNCHANGED pc
    /\ UNCHANGED <<heap, heap0, calls, args, viable, online, result, wcount,
                   keys_read, inp, ret>>

FallbackAnnotate(c) ==
    /\ pc[c] = "fb_annotate"
    /\ heap' = [heap EXCEPT ![CurrentDest(c)].distance_to_data =
                                Some(Closest(c, CurrentDest(c)))]
    /\ CountWrite(c, CurrentDest(c), "distance_to_data")
    /\ Goto(c, "fb_append")
    /\ UNCHANGED <<heap0, calls, args, idx, viable, online, result,
                   keys_read, inp, ret>>

FallbackAppend(c) ==
    /\ pc[c] = "fb_append"
    /\ online' = [online EXCEPT ![c] = Append(@, CurrentDest(c))]
    /\ idx' = [idx EXCEPT ![c] = @ + 1]
    /\ Goto(c, "fb_loop")
    /\ UNCHANGED <<heap, heap0, calls, args, viable, result, wcount,
                   keys_read, inp, ret>>

FallbackReturn(c) ==
    /\ pc[c] = "fb_sort"
    /\ keys_read' = [keys_read EXCEPT ![c] = DistanceKey(heap, online[c])]
    /\ result' = [result EXCEPT ![c] =
           Ids(heap, sorted_by_distance(online[c], DistanceKey(heap, online[c])))]
    /\ Goto(c, "done")
    /\ UNCHANGED <<heap, heap0, calls, args, idx, viable, online, wcount,
                   inp, ret>>

ScoreStep(c) ==
    /\ pc[c] = "score"
    /\ idx[c] <= Len(viable[c])
    /\ ~calculate_matching_score(heap[viable[c][idx[c]]]).raised
    /\ heap' = [heap EXCEPT ![viable[c][idx[c]]].matching_score =
                   Some(calculate_matching_score(heap[viable[c][idx[c]]]).value)]
    /\ CountWrite(c, viable[c][idx[c]], "matching_score")
    /\ idx' = [idx EXCEPT ![c] = @ + 1]
    /\ UNCHANGED <<heap0, calls, args, pc, viable, online, result,
                   keys_read, inp, ret>>

ScoreRaise(c) ==
    /\ pc[c] = "score"
    /\ idx[c] <= Len(viable[c])
    /\ calculate_matching_score(heap[viable[c][idx[c]]]).raised
    /\ Goto(c, "raised")
    /\ UNCHANGED <<heap, heap0, calls, args, idx, viable, online, result,
                   wcount, keys_read, inp, ret>>

ScoreLoopEnd(c) ==
    /\ pc[c] = "score"
    /\ idx[c] > Len(viable[c])
    /\ Goto(c, "sort")
    /\ UNCHANGED <<heap, heap0, calls, args, idx, viable, online, result,
                   wcount, keys_read, inp, ret>>

SortReturn(c) ==
    /\ pc[c] = "sort"
    /\ keys_read' = [keys_read EXCEPT ![c] = ScoreKey(heap, viable[c])]
    /\ viable' = [viable EXCEPT ![c] =
           sort_by_matching_score(viable[c], ScoreKey(heap, viable[c]))]
    /\ result' = [result EXCEPT ![c] = Ids(heap, viable'[c])]
    /\ Goto(c, "done")
    /\ UNCHANGED <<heap, heap0, calls, args, idx, online, wcount, inp, ret>>

Next ==
    \/ \E c \in calls : FilterStep(c)
    \/ \E c \in calls : AnnotateViable(c)
    \/ \E c \in calls : AppendViable(c)
    \/ \E c \in calls : Branch(c)
    \/ \E c \in calls : FallbackStep(c)
    \/ \E c \in calls : FallbackAnnotate(c)
    \/ \E c \in calls : FallbackAppend(c)
    \/ \E c \in calls : FallbackReturn(c)
    \/ \E c \in calls : ScoreStep(c)
    \/ \E c \in calls : ScoreRaise(c)
    \/ \E c \in calls : ScoreLoopEnd(c)
    \/ \E c \in calls : SortReturn(c)

----------------------------------------------------------------------------
(* Inputs                                                                  *)

\* the longest destination list of a single call
MaxDests == 3

Dest(status, lat, lon, cpu, mem, mq, qc, mr, rc) ==
    [destination_id |-> "", dest_status |-> status,
     latitude |-> lat, longitude |-> lon,
     dest_cpu_histogram |-> cpu, dest_memory_histogram |-> mem,
     dest_tool_median_queue_time |-> mq, dest_queue_count |-> qc,
     dest_tool_median_run_time |-> mr, dest_run_count |-> rc,
     distance_to_data |-> None, matching_score |-> None]

\* one (key, count) item of a histogram
Item(digits, count) == <<digits, count>>

DestPool ==
    { \* online, enough for every job at the boundary, an empty bucket; 3/20
      Dest("online", 0, 0,
           Some(<<Item(<<8>>, 0)>>), Some(<<Item(<<2, 0, 4, 8>>, 1)>>),
           Some(2), Some(5), Some(10), Some(2)),
      \* online, enough for the small job only; zero medians
      Dest("online", 0, 90,
           Some(<<Item(<<4>>, 1)>>), Some(<<Item(<<1, 0, 2, 4>>, 2)>>),
           Some(0), None, Some(0), None),
      \* online, no CPU histogram; no statistics
      Dest("online", 0, 0,
           None, Some(<<Item(<<4, 0, 9, 6>>, 1)>>),
           None, None, None, None),
      \* offline, enough for every job
      Dest("offline", 0, 0,
           Some(<<Item(<<1, 6>>, 1)>>), Some(<<Item(<<4, 0, 9, 6>>, 1)>>),
           Some(1), Some(1), Some(1), Some(1)),
      \* online, enough for every job; no median queue time
      Dest("online", 0, -90,
           Some(<<Item(<<2>>, 1), Item(<<1, 6>>, 1)>>),
           Some(<<Item(<<1, 0, 2, 3>>, 1), Item(<<2, 0, 4, 8>>, 0)>>),
           None, Some(3), Some(4), Some(1)),
      \* online, enough for every job; 1/10 + 1/20 = 3/20
      Dest("online", 0, 180,
           Some(<<Item(<<1, 6>>, 2)>>), Some(<<Item(<<2, 0, 4, 8>>, 1)>>),
           Some(5), Some(2), Some(2), Some(10)),
      \* online, enough for every job; counts absent, score 2
      Dest("online", 0, 90,
           Some(<<Item(<<8>>, 1)>>), Some(<<Item(<<4, 0, 9, 6>>, 1)>>),
           Some(1), None, Some(1), None) }

DestinationIds == <<"d1", "d2", "d3", "d4", "d5", "d6", "d7", "d8">>

\* a list of destination records, each with its own identifier
WithIds(s) == [k \in 1..Len(s) |-> [s[k] EXCEPT !.destination_id = DestinationIds[k]]]

DestLists(pool, n) == {WithIds(s) : s \in UNION {[1..m -> pool] : m \in 0..n}}

Jobs == [cores : {4, 8}, memory : {1, 2}]

Coordinate(lat, lon) == [latitude |-> lat, longitude |-> lon]

Registry == [s \in {"S1", "S2"} |->
                IF s = "S1" THEN Coordinate(0, 0) ELSE Coordinate(0, 90)]

Dataset(id) == [object_store_id |-> id]

DatasetMappings ==
    { <<>>,
      <<Dataset(Some("S2")), Dataset(Some("S1")), Dataset(Some("S2"))>>,
      <<Dataset(Some("S3")), Dataset(None), Dataset(Some("S2"))>> }

Arguments(job, refs, registry, datasets) ==
    [job_requirements |-> job, destinations |-> refs,
     objectstores |-> registry, dataset_attributes |-> datasets]

NoWrites(h) ==
    [r \in 1..Len(h) |-> [distance_to_data |-> 0, matching_score |-> 0]]

\* the state at the entry of the calls as, over the records h
InitCalls(h, as) ==
    /\ heap = h
    /\ heap0 = h
    /\ calls = 1..Len(as)
    /\ args = as
    /\ pc = [c \in 1..Len(as) |-> "filter"]
    /\ idx = [c \in 1..Len(as) |-> 1]
    /\ viable = [c \in 1..Len(as) |-> <<>>]
    /\ online = [c \in 1..Len(as) |-> <<>>]
    /\ result = [c \in 1..Len(as) |-> <<>>]
    /\ wcount = [c \in 1..Len(as) |-> NoWrites(h)]
    /\ keys_read = [c \in 1..Len(as) |-> <<>>]

NoInput == [fn |-> "none"]

Init ==
    /\ \E h \in DestLists(DestPool, MaxDests), job \in Jobs,
          datasets \in DatasetMappings :
           InitCalls(h, <<Arguments(job, [k \in 1..Len(h) |-> k],
                                    Registry, datasets)>>)
    /\ inp = NoInput
    /\ ret = NoInput

Spec == Init /\ [][Next]_vars

----------------------------------------------------------------------------
(* get_sorted_destinations as one function of the records h and the        *)
(* arguments a: what a call returns when nothing else runs during it.      *)

RaisedCall == [raised |-> TRUE, value |-> <<>>]

AnnotateDistance(h, refs, a) ==
    [r \in DOMAIN h |->
        IF r \in SeqToSet(refs)
        THEN [h[r] EXCEPT !.distance_to_data =
                 Some(closest_destination(h[r], a.objectstores,
                                          a.dataset_attributes))]
        ELSE h[r]]

AnnotateScore(h, refs) ==
    [r \in DOMAIN h |->
        IF r \in SeqToSet(refs)
        THEN [h[r] EXCEPT !.matching_score =
                 Some(calculate_matching_score(h[r]).value)]
        ELSE h[r]]

get_sorted_destinations(h, a) ==
    LET InFilter(r) == IsViable(h[r], a.job_requirements)
        InFallback(r) == IsOnline(h[r])
        viable_destinations == SelectSeq(a.destinations, InFilter)
        online_destinations == SelectSeq(a.destinations, InFallback)
    IN  IF NoViable(viable_destinations)
        THEN LET h1 == AnnotateDistance(h, online_destinations, a)
             IN  Returned(Ids(h1, sorted_by_distance(online_destinations,
                                      DistanceKey(h1, online_destinations))))
        ELSE IF \E r \in SeqToSet(viable_destinations) :
                    calculate_matching_score(h[r]).raised
             THEN RaisedCall
             ELSE LET h2 == AnnotateScore(h, viable_destinations)
                  IN  Returned(Ids(h2, sort_by_matching_score(viable_destinations,
                                           ScoreKey(h2, viable_destinations))))

Finished(c) == pc[c] \in {"done", "raised"}

Outcome(c) == IF pc[c] = "raised" THEN RaisedCall ELSE Returned(result[c])

\* the stepwise call, run alone, ends as the function says
StepwiseAgrees ==
    \A c \in calls :
        (Finished(c) /\ Cardinality(calls) = 1) =>
            Outcome(c) = get_sorted_destinations(heap0, args[c])

----------------------------------------------------------------------------
(* Two calls, interleaved statement by statement, over private copies of   *)
(* the destination records or over the same records (SpecConc).            *)

\* the longest destination list of two concurrent calls
MaxConcDests == 2

ConcPool ==
    { d \in DestPool :
        /\ d.dest_status = "online"
        /\ d.latitude = 0
        /\ d.longitude \in {0, 90, -90}
        /\ d.dest_queue_count # Some(5) }

ConcJobs == {j \in Jobs : (j.cores = 4) = (j.memory = 1)}

ConcDatasetMappings ==
    {<<>>, <<Dataset(Some("S1"))>>, <<Dataset(Some("S2"))>>}

Refs(n, offset) == [k \in 1..n |-> k + offset]

InitConc ==
    /\ \E h \in DestLists(ConcPool, MaxConcDests), job \in ConcJobs,
          d1, d2 \in ConcDatasetMappings, shared \in BOOLEAN :
           IF shared
           THEN InitCalls(h,
                    <<Arguments(job, Refs(Len(h), 0), Registry, d1),
                      Arguments(job, Refs(Len(h), 0), Registry, d2)>>)
           ELSE InitCalls(h \o h,
                    <<Arguments(job, Refs(Len(h), 0), Registry, d1),
                      Arguments(job, Refs(Len(h), Len(h)), Registry, d2)>>)
    /\ inp = NoInput
    /\ ret = NoInput

SpecConc == InitConc /\ [][Next]_vars

----------------------------------------------------------------------------
(* The pure functions, applied to inputs drawn at the start                *)

NoCalls == InitCalls(<<>>, <<>>)

NoResult == [done |-> FALSE]

\* calculate_matching_score (SpecScore)
MedianTimes == {None, Some(-1), Some(0), Some(2), Some(5), Some(10)}

JobCounts == {None, Some(0), Some(2), Some(5)}

InitScore ==
    /\ NoCalls
    /\ \E mq \in MedianTimes, qc \in JobCounts, mr \in MedianTimes,
          rc \in JobCounts :
           inp = [fn |-> "calculate_matching_score",
                  destination |-> Dest("online", 0, 0, None, None,
                                       mq, qc, mr, rc)]
    /\ ret = NoResult

CalculateMatchingScore ==
    /\ inp.fn = "calculate_matching_score"
    /\ ~ret.done
    /\ ret' = [done |-> TRUE,
               score |-> calculate_matching_score(inp.destination)]
    /\ UNCHANGED <<callvars, inp>>

SpecScore == InitScore /\ [][CalculateMatchingScore]_vars

\* get_object_store and closest_destination (SpecStore)

\* the most datasets of a job
MaxDatasets == 4

StoreIds == {None, Some(""), Some("S1"), Some("S2"), Some("S3")}

DatasetSeqs(n) ==
    UNION {[1..m -> {Dataset(id) : id \in StoreIds}] : m \in 0..n}

Registries ==
    { Registry,
      [s \in {"S2"} |-> Coordinate(0, 90)],
      [s \in {"S1", "S2", "S3"} |->
          IF s = "S1" THEN Coordinate(0, 180)
          ELSE IF s = "S2" THEN Coordinate(0, -90) ELSE Coordinate(0, 0)],
      [s \in {} |-> Coordinate(0, 0)] }

InitStore ==
    /\ NoCalls
    /\ \E ds \in DatasetSeqs(MaxDatasets), reg \in Registries,
          lon \in {0, 90} :
           inp = [fn |-> "closest_destination",
                  destination |-> Dest("online", 0, lon, None, None,
                                       None, None, None, None),
                  objectstores |-> reg,
                  dataset_attributes |-> ds]
    /\ ret = [stores |-> None, min_distance |-> None]

GetObjectStore ==
    /\ inp.fn = "closest_destination"
    /\ ret.stores = None
    /\ ret' = [ret EXCEPT !.stores =
                   Some(get_object_store(inp.dataset_attributes))]
    /\ UNCHANGED <<callvars, inp>>

ClosestDestination ==
    /\ inp.fn = "closest_destination"
    /\ ret.min_distance = None
    /\ ret' = [ret EXCEPT !.min_distance =
                   Some(closest_destination(inp.destination, inp.objectstores,
                                            inp.dataset_attributes))]
    /\ UNCHANGED <<callvars, inp>>

NextStore == GetObjectStore \/ ClosestDestination

SpecStore == InitStore /\ [][NextStore]_vars

----------------------------------------------------------------------------
(* Properties of one ranking call (specification Spec)                     *)

\* the number a string of decimal digits denotes
RECURSIVE Pow10(_)
Pow10(e) == IF e = 0 THEN 1 ELSE 10 * Pow10(e - 1)

RECURSIVE WeightedSum(_, _)
WeightedSum(digits, k) ==
    IF k = 0 THEN 0
    ELSE digits[k] * Pow10(Len(digits) - k) + WeightedSum(digits, k - 1)

DecimalValue(digits) == WeightedSum(digits, Len(digits))

\* the keys of a histogram field, none when the field is missing
KeysOf(field) ==
    IF field = None THEN {} ELSE {field[1][k][1] : k \in 1..Len(field[1])}

\* feasibility as the filter is described: online, some CPU key at least
\* the cores asked for, some memory key at least the memory asked for in MB
Feasible(dest, job) ==
    /\ dest.dest_status = "online"
    /\ \E key \in KeysOf(dest.dest_cpu_histogram) :
           DecimalValue(key) >= job.cores
    /\ \E key \in KeysOf(dest.dest_memory_histogram) :
           DecimalValue(key) >= job.memory * 1024

\* the positions of call c's input list that hold a feasible destination
FeasiblePositions(c) ==
    {k \in 1..Len(Dests(c)) :
        Feasible(heap0[Dests(c)[k]], args[c].job_requirements)}

OnlinePositions(c) ==
    {k \in 1..Len(Dests(c)) : heap0[Dests(c)[k]].dest_status = "online"}

\* the positions of the input list whose destination has identifier id
PositionsOf(c, id) ==
    {k \in 1..Len(Dests(c)) : heap0[Dests(c)[k]].destination_id = id}

PositionOf(c, id) == CHOOSE k \in PositionsOf(c, id) : TRUE

DistanceAt(c, k) == heap[Dests(c)[k]].distance_to_data[1]

ScoreAt(c, k) == heap[Dests(c)[k]].matching_score[1]

\* C1: every identifier a call returns, on the matching-score path or on
\* the distance path, is that of an input destination whose status is
\* online, and no input destination has two entries in the returned list.
C1_OnlyOnlineReturned ==
    \A c \in calls :
        pc[c] = "done" =>
            /\ \A k \in 1..Len(result[c]) :
                   /\ PositionsOf(c, result[c][k]) # {}
                   /\ PositionsOf(c, result[c][k]) \subseteq OnlinePositions(c)
            /\ \A k, m \in 1..Len(result[c]) :
                   result[c][k] = result[c][m] => k = m

\* a call has returned a non-empty list on the distance path while an
\* offline destination was in its input
C1_Witness ==
    \E c \in calls :
        /\ pc[c] = "done"
        /\ FeasiblePositions(c) = {}
        /\ result[c] # <<>>
        /\ OnlinePositions(c) # 1..Len(Dests(c))

\* C2: when some destination is feasible, the returned list holds exactly
\* the feasible destinations, by descending matching_score, and equal
\* scores (infinite ones too) keep the order of the input list.
C2_PrimaryOrder ==
    \A c \in calls :
        (pc[c] = "done" /\ FeasiblePositions(c) # {}) =>
            /\ Len(result[c]) = Cardinality(FeasiblePositions(c))
            /\ \A k \in 1..Len(result[c]) :
                   /\ PositionsOf(c, result[c][k]) # {}
                   /\ PositionOf(c, result[c][k]) \in FeasiblePositions(c)
            /\ \A k, m \in 1..Len(result[c]) :
                   k < m =>
                       LET a == PositionOf(c, result[c][k])
                           b == PositionOf(c, result[c][m])
                       IN  \/ Less(ScoreAt(c, b), ScoreAt(c, a))
                           \/ ScoreAt(c, a) = ScoreAt(c, b) /\ a < b

\* a call has returned two destinations of equal score, the farther one
\* first, an infinite score ahead of them, and has left out an online
\* destination that is not feasible
C2_Witness ==
    \E c \in calls :
        /\ pc[c] = "done"
        /\ FeasiblePositions(c) # {}
        /\ OnlinePositions(c) # FeasiblePositions(c)
        /\ \E k, m \in 1..Len(result[c]) :
               LET a == PositionOf(c, result[c][k])
                   b == PositionOf(c, result[c][m])
               IN  /\ k < m
                   /\ ScoreAt(c, a) = ScoreAt(c, b)
                   /\ Less(DistanceAt(c, b), DistanceAt(c, a))

\* C3: when no destination is feasible, the returned list holds all online
\* destinations, by ascending distance_to_data, equal distances in input
\* order; with no online destination it is empty.
C3_FallbackOrder ==
    \A c \in calls :
      /\ FeasiblePositions(c) = {} => pc[c] # "raised"
      /\ (pc[c] = "done" /\ FeasiblePositions(c) = {}) =>
            /\ Len(result[c]) = Cardinality(OnlinePositions(c))
            /\ \A k \in 1..Len(result[c]) :
                   /\ PositionsOf(c, result[c][k]) # {}
                   /\ PositionOf(c, result[c][k]) \in OnlinePositions(c)
            /\ \A k, m \in 1..Len(result[c]) :
                   k < m =>
                       LET a == PositionOf(c, result[c][k])
                           b == PositionOf(c, result[c][m])
                       IN  \/ Less(DistanceAt(c, a), DistanceAt(c, b))
                           \/ DistanceAt(c, a) = DistanceAt(c, b) /\ a < b

\* a call has returned, on the distance path, a list that is not in input
\* order and holds two destinations at the same distance
C3_Witness ==
    \E c \in calls :
        /\ pc[c] = "done"
        /\ FeasiblePositions(c) = {}
        /\ \E k, m \in 1..Len(result[c]) :
               k < m /\ PositionOf(c, result[c][k]) > PositionOf(c, result[c][m])
        /\ \E k, m \in 1..Len(result[c]) :
               /\ k < m
               /\ DistanceAt(c, PositionOf(c, result[c][k]))
                      = DistanceAt(c, PositionOf(c, result[c][m]))

\* C4: absent load statistics never make ranking fail: no call ends with
\* an error.
C4_NeverRaises == \A c \in calls : pc[c] # "raised"

\* C6: once the filter loop is over, the viable destinations are exactly
\* the feasible ones.
C6_FilterIsFeasibility ==
    \A c \in calls :
        pc[c] \notin {"filter", "annotate", "append"} =>
            SeqToSet(viable[c]) = {Dests(c)[k] : k \in FeasiblePositions(c)}

\* the filter has kept a destination whose qualifying CPU bucket is empty
\* and holds exactly the cores asked for, and has dropped an online one
C6_Witness ==
    \E c \in calls :
        /\ pc[c] = "branch"
        /\ OnlinePositions(c) # FeasiblePositions(c)
        /\ \E r \in SeqToSet(viable[c]) :
               \A k \in 1..Len(heap[r].dest_cpu_histogram[1]) :
                   LET item == heap[r].dest_cpu_histogram[1][k]
                   IN  DecimalValue(item[1]) >= args[c].job_requirements.cores
                           => /\ DecimalValue(item[1]) = args[c].job_requirements.cores
                              /\ item[2] = 0

\* C10: in one call each record's distance_to_data and matching_score are
\* written at most once; distance_to_data only on feasible destinations,
\* or on online ones when none is feasible; matching_score only on
\* feasible ones; nothing else of any record changes, offline records do
\* not change at all, and the input list keeps its order.
C10_WriteOnce ==
    \A c \in calls :
        LET feasible == FeasiblePositions(c)
            written == {k \in 1..Len(Dests(c)) :
                           \/ wcount[c][Dests(c)[k]].distance_to_data > 0
                           \/ wcount[c][Dests(c)[k]].matching_score > 0}
        IN  /\ Dests(c) = [k \in 1..Len(heap0) |-> k]
            /\ \A k \in 1..Len(Dests(c)) :
                   LET r == Dests(c)[k]
                       w == wcount[c][r]
                   IN  /\ w.distance_to_data <= 1
                       /\ w.matching_score <= 1
                       /\ w.distance_to_data = 0 =>
                              heap[r].distance_to_data = heap0[r].distance_to_data
                       /\ w.matching_score = 0 =>
                              heap[r].matching_score = heap0[r].matching_score
                       /\ [heap[r] EXCEPT !.distance_to_data = None,
                                          !.matching_score = None]
                              = [heap0[r] EXCEPT !.distance_to_data = None,
                                                 !.matching_score = None]
                       /\ heap0[r].dest_status # "online" => heap[r] = heap0[r]
            /\ written # {} =>
                   \A k \in written :
                       LET w == wcount[c][Dests(c)[k]]
                       IN  /\ w.distance_to_data = 1 =>
                                  IF feasible # {} THEN k \in feasible
                                  ELSE k \in OnlinePositions(c)
                           /\ w.matching_score = 1 => k \in feasible

\* a call has returned on the matching-score path with an annotated
\* record, an online record it left alone and an offline record
C10_Witness ==
    \E c \in calls :
        /\ pc[c] = "done"
        /\ \E r \in DOMAIN heap :
               wcount[c][r] = [distance_to_data |-> 1, matching_score |-> 1]
        /\ \E k \in OnlinePositions(c) : heap[Dests(c)[k]] = heap0[Dests(c)[k]]
        /\ OnlinePositions(c) # 1..Len(Dests(c))

----------------------------------------------------------------------------
(* Properties of two interleaved calls (specification SpecConc)            *)

\* the calls were given the same destination records
SharedRecords ==
    \A c, e \in calls : SeqToSet(Dests(c)) = SeqToSet(Dests(e))

\* the calls were given disjoint copies of the destination records
PrivateRecords ==
    \A c, e \in calls : c # e => SeqToSet(Dests(c)) \cap SeqToSet(Dests(e)) = {}

\* what call c returns when it runs alone on the records as they were
Alone(c) == get_sorted_destinations(heap0, args[c])

\* the sort of call c read, for some record, a distance_to_data that is
\* not the one call c had written on it
AnnotationOverwritten(c) ==
    /\ NoViable(SelectSeq(Dests(c),
          LAMBDA r : IsViable(heap0[r], args[c].job_requirements)))
    /\ \E r \in DOMAIN keys_read[c] :
           keys_read[c][r] # closest_destination(heap0[r], args[c].objectstores,
                                                 args[c].dataset_attributes)

\* C9: over private copies every interleaving makes each call end as it
\* does alone; a call ends differently only over shared records, with
\* another dataset mapping in the other call, and then because the other
\* call overwrote a distance_to_data between its annotation and its sort.
C9_PrivateCopiesIsolate ==
    \A c \in calls :
        Finished(c) =>
            /\ PrivateRecords => Outcome(c) = Alone(c)
            /\ Outcome(c) # Alone(c) =>
                   /\ SharedRecords
                   /\ \E e \in calls :
                          args[e].dataset_attributes # args[c].dataset_attributes
                   /\ AnnotationOverwritten(c)

\* the race: over shared records both calls have returned and one of them
\* returned another order than alone, its annotation having been overwritten
C9_Witness ==
    /\ Cardinality(calls) = 2
    /\ SharedRecords
    /\ \A c \in calls : pc[c] = "done"
    /\ \E c \in calls :
           /\ Outcome(c) # Alone(c)
           /\ SeqToSet(result[c]) = SeqToSet(Alone(c).value)
           /\ AnnotationOverwritten(c)

\* over private copies both calls have returned, after steps of one call
\* between the annotation and the sort of the other
C9_PrivateWitness ==
    /\ Cardinality(calls) = 2
    /\ PrivateRecords
    /\ \A c \in calls : pc[c] = "done" /\ Len(result[c]) = 2
    /\ args[1].dataset_attributes # args[2].dataset_attributes
    /\ result[1] # result[2]

----------------------------------------------------------------------------
(* Properties of the pure functions (SpecStore, SpecScore)                 *)

\* the non-empty object_store_id values of a dataset mapping
StoresOf(dataset_attributes) ==
    {dataset_attributes[k].object_store_id[1] :
        k \in {j \in 1..Len(dataset_attributes) :
                  /\ dataset_attributes[j].object_store_id # None
                  /\ dataset_attributes[j].object_store_id # Some("")}}

\* C5: get_object_store returns the distinct non-empty object_store_id
\* values: no identifier twice, [S] when all datasets with an id name the
\* same store S, and [] when no dataset carries one.
C5_DistinctStores ==
    ret.stores # None =>
        LET out == ret.stores[1]
        IN  /\ SeqToSet(out) = StoresOf(inp.dataset_attributes)
            /\ \A k, m \in 1..Len(out) : out[k] = out[m] => k = m

\* C7: closest_destination returns the least distance from the destination
\* to a store that the datasets name and the registry holds, and +infinity
\* when there is no such store.
C7_MinOverRegistered ==
    ret.min_distance # None =>
        LET known == StoresOf(inp.dataset_attributes)
                         \cap DOMAIN inp.objectstores
            dists == {distance(inp.objectstores[s].latitude,
                               inp.objectstores[s].longitude,
                               inp.destination.latitude,
                               inp.destination.longitude) : s \in known}
        IN  IF known = {}
            THEN ret.min_distance[1] = Inf
            ELSE /\ ret.min_distance[1] \in dists
                 /\ \A d \in dists : ~Less(d, ret.min_distance[1])

\* closest_destination has returned a distance that is not that of the
\* last store, for datasets that name a store twice and a store the
\* registry does not hold
C7_Witness ==
    /\ ret.min_distance # None
    /\ ret.stores # None
    /\ Len(ret.stores[1]) = 4
    /\ Cardinality(SeqToSet(ret.stores[1])) = 3
    /\ SeqToSet(ret.stores[1]) \cap DOMAIN inp.objectstores # {}
    /\ ~(SeqToSet(ret.stores[1]) \subseteq DOMAIN inp.objectstores)
    /\ ret.stores[1][4] \in DOMAIN inp.objectstores
    /\ Less(ret.min_distance[1],
            distance(inp.objectstores[ret.stores[1][4]].latitude,
                     inp.objectstores[ret.stores[1][4]].longitude,
                     inp.destination.latitude, inp.destination.longitude))

\* C8: for numeric median times, calculate_matching_score returns qm + cm,
\* each factor 1/(median time * count) when both are above 0 and +infinity
\* otherwise, an absent count being 1; the score is finite exactly when
\* all four values are above 0, and 2, 5, 10, 2 give 3/20.
C8_ScoreFormula ==
    (/\ ret.done
     /\ inp.destination.dest_tool_median_queue_time # None
     /\ inp.destination.dest_tool_median_run_time # None) =>
        LET mw == inp.destination.dest_tool_median_queue_time[1]
            mr == inp.destination.dest_tool_median_run_time[1]
            qs == IF inp.destination.dest_queue_count = None THEN 1
                  ELSE inp.destination.dest_queue_count[1]
            rj == IF inp.destination.dest_run_count = None THEN 1
                  ELSE inp.destination.dest_run_count[1]
            score == ret.score.value
        IN  /\ ~ret.score.raised
            /\ score.inf <=> ~(mw > 0 /\ qs > 0 /\ mr > 0 /\ rj > 0)
            /\ ~score.inf =>
                   score.n * (mw * qs * mr * rj) = score.d * (mw * qs + mr * rj)
            /\ (mw = 2 /\ qs = 5 /\ mr = 10 /\ rj = 2) =>
                   score = [inf |-> FALSE, n |-> 3, d |-> 20]

\* the score of median queue time 2, queue count 5, median run time 10
\* and run count 2 has been computed
C8_Witness ==
    /\ ret.done
    /\ inp.destination.dest_tool_median_queue_time = Some(2)
    /\ inp.destination.dest_queue_count = Some(5)
    /\ inp.destination.dest_tool_median_run_time = Some(10)
    /\ inp.destination.dest_run_count = Some(2)
    /\ ~ret.score.raised

====
